---------------------------- MODULE Spec2Model ----------------------------
(***************************************************************************)
(* Model of the stock-setup scanner: calculate_technicals (indicator       *)
(* engine + setup classifier) and the handler scan loop, for the two       *)
(* copies src/scan.py and src/api/scan_disabled.py.                        *)
(*                                                                         *)
(* Numbers.  Prices and volumes are integers.  A value held in a Python    *)
(* list / pandas Series is a record [k, n, d]:                             *)
(*   k = "num"  the rational n/d (d > 0)                                   *)
(*   k = "nan"  float NaN (what pandas rolling() yields for a short window)*)
(*   k = "inf"  float +infinity                                            *)
(*   k = "None" the Python None that pad() inserts                         *)
(*   k = "err"  the result of an access that raises (IndexError)           *)
(* Means are kept as exact rationals; comparisons cross-multiply.          *)
(***************************************************************************)
EXTENDS Integers, Sequences, FiniteSets, TLC

\* ------------------------------------------------------------------ values

None == [k |-> "None", n |-> 0, d |-> 1]

NaN == [k |-> "nan", n |-> 0, d |-> 1]

Inf == [k |-> "inf", n |-> 0, d |-> 1]

IdxErr == [k |-> "err", n |-> 0, d |-> 1]

Num(a, b) == [k |-> "num", n |-> a, d |-> b]

Int2Val(x) == Num(x, 1)

IsNone(v) == v.k = "None"

\* Python truth values of an expression that may raise
PyBool(b) == IF b THEN "True" ELSE "False"

\* a > b on floats: NaN compares False, None or a failed access raises
PyGt(a, b) ==
    IF a.k = "err" \/ b.k = "err" \/ a.k = "None" \/ b.k = "None" THEN "Raise"
    ELSE IF a.k = "nan" \/ b.k = "nan" THEN "False"
    ELSE IF a.k = "inf" THEN PyBool(b.k # "inf")
    ELSE IF b.k = "inf" THEN "False"
    ELSE PyBool(a.n * b.d > b.n * a.d)

PyLt(a, b) == PyGt(b, a)

\* x and y (short-circuit: a falsy or raising x is the result)
PyAnd(x, y) == IF x = "True" THEN y ELSE x

\* x or y
PyOr(x, y) == IF x = "False" THEN y ELSE x

\* (a if c else b) with a Python bool c
PyIf(c, a, b) == IF c THEN a ELSE b

\* lst[k] for a Python list / numpy array: negative k counts from the end
PyIdx(lst, k) ==
    IF k >= 0 /\ k < Len(lst) THEN lst[k + 1]
    ELSE IF k < 0 /\ -k <= Len(lst) THEN lst[Len(lst) + k + 1]
    ELSE IdxErr

\* v * 1.5
Times15(v) == IF v.k = "num" THEN Num(v.n * 3, v.d * 2) ELSE v

\* ------------------------------------------------- pandas / numpy helpers

RECURSIVE SumRange(_, _, _)
SumRange(s, lo, hi) == IF lo > hi THEN 0 ELSE s[hi] + SumRange(s, lo, hi - 1)

RECURSIVE MaxRange(_, _, _)
MaxRange(s, lo, hi) ==
    IF lo = hi THEN s[lo]
    ELSE LET m == MaxRange(s, lo, hi - 1) IN IF s[hi] > m THEN s[hi] ELSE m

\* mutant of RollingMean: the first full window is still reported as NaN
RollingMean_late(s, window) ==
    [j \in 1..Len(s) |->
        IF j <= window THEN NaN ELSE Num(SumRange(s, j - window + 1, j), window)]

\* pd.Series(s).rolling(window).mean().tolist()
RollingMean(s, window) ==
    [j \in 1..Len(s) |->
        IF j < window THEN NaN ELSE Num(SumRange(s, j - window + 1, j), window)]

\* pd.Series(s).rolling(window).max().tolist()
RollingMax(s, window) ==
    [j \in 1..Len(s) |->
        IF j < window THEN NaN ELSE Int2Val(MaxRange(s, j - window + 1, j))]

\* np.diff(closes)
Diff(s) == [j \in 1..(IF Len(s) = 0 THEN 0 ELSE Len(s) - 1) |-> s[j + 1] - s[j]]

\* np.where(delta > 0, delta, 0)
Up(delta) == [j \in 1..Len(delta) |-> IF delta[j] > 0 THEN delta[j] ELSE 0]

\* np.where(delta < 0, -delta, 0)
Down(delta) == [j \in 1..Len(delta) |-> IF delta[j] < 0 THEN -delta[j] ELSE 0]

\* mutant of FDiv: any division by zero yields NaN
FDiv_zeroNaN(a, b) ==
    IF a.k = "nan" \/ b.k = "nan" THEN NaN
    ELSE IF b.n = 0 THEN NaN
    ELSE Num(a.n * b.d, a.d * b.n)

\* elementwise float division a / b: x/0 is inf, 0/0 is NaN
FDiv(a, b) ==
    IF a.k = "nan" \/ b.k = "nan" THEN NaN
    ELSE IF b.n = 0 THEN (IF a.n = 0 THEN NaN ELSE Inf)
    ELSE Num(a.n * b.d, a.d * b.n)

\* 100 - (100 / (1 + rs))
RsiOf(rs) ==
    IF rs.k = "nan" THEN NaN
    ELSE IF rs.k = "inf" THEN Num(100, 1)
    ELSE Num(100 * (rs.n + rs.d) - 100 * rs.d, rs.n + rs.d)

\* mutant of Rsi: a 15-period window
Rsi_w15(closes) ==
    LET delta     == Diff(closes)
        roll_up   == RollingMean(Up(delta), 15)
        roll_down == RollingMean(Down(delta), 15)
    IN [j \in 1..Len(delta) |-> RsiOf(FDiv(roll_up[j], roll_down[j]))]

\* rs = roll_up / roll_down ; rsi = (100 - (100 / (1 + rs))).tolist()
Rsi(closes) ==
    LET delta     == Diff(closes)
        roll_up   == RollingMean(Up(delta), 14)
        roll_down == RollingMean(Down(delta), 14)
    IN [j \in 1..Len(delta) |-> RsiOf(FDiv(roll_up[j], roll_down[j]))]

\* def pad(arr, length): return [None] * diff + arr
pad(arr, length) ==
    LET diff == length - Len(arr)
    IN [j \in 1..(IF diff > 0 THEN diff ELSE 0) |-> None] \o arr


\* ------------------------------------------------------------ DataFrame
\* A frame is [cols : column name -> sequence of integers, index : dates].

Columns == {"Open", "High", "Low", "Close", "Volume"}

\* str.capitalize on the column names the price provider is known to use
Capitalize(name) ==
    CASE name \in {"open", "OPEN", "Open"}        -> "Open"
      [] name \in {"high", "HIGH", "High"}        -> "High"
      [] name \in {"low", "LOW", "Low"}           -> "Low"
      [] name \in {"close", "CLOSE", "Close"}     -> "Close"
      [] name \in {"volume", "VOLUME", "Volume"}  -> "Volume"
      [] OTHER                                    -> "Adj close"

\* df.rename(columns=str.capitalize)
Rename(df) ==
    [cols  |-> [c \in {Capitalize(x) : x \in DOMAIN df.cols} |->
                   df.cols[CHOOSE x \in DOMAIN df.cols : Capitalize(x) = c]],
     index |-> df.index]

\* len(df)
DfLen(df) == Len(df.index)

\* df.empty
DfEmpty(df) == DfLen(df) = 0 \/ DOMAIN df.cols = {}

Vals(s) == [j \in 1..Len(s) |-> Int2Val(s[j])]

\* df[name].values ; a missing column raises KeyError
Col(df, name) == IF name \in DOMAIN df.cols THEN Vals(df.cols[name]) ELSE << >>

\* ------------------------------------------- indicators (both copies alike)

\* The local variables of one calculate_technicals call, up to the point where
\* the setup is determined (the indicator arrays are the same in both copies).
Indicators(df) ==
    LET close == df.cols["Close"]
        n == Len(close)
    IN [i         |-> n - 1,
        closes    |-> Vals(close),
        highs     |-> Col(df, "High"),
        lows      |-> Col(df, "Low"),
        volumes   |-> Col(df, "Volume"),
        hasOpen   |-> "Open" \in DOMAIN df.cols,
        opens     |-> Col(df, "Open"),
        sma20     |-> pad(RollingMean(close, 20), n),
        sma50     |-> pad(RollingMean(close, 50), n),
        rsi       |-> pad(Rsi(close), n),
        high20    |-> pad(RollingMax(df.cols["High"], 20), n),
        avg_vol20 |-> pad(RollingMean(df.cols["Volume"], 20), n)]

\* df["Open"].iloc[k] ; a missing column raises KeyError
OpenAt(L, k) == IF L.hasOpen THEN PyIdx(L.opens, k) ELSE IdxErr

\* x is not None, for a list access x that may itself raise
IsNotNone(v) == IF v.k = "err" THEN "Raise" ELSE PyBool(~IsNone(v))

\* (a if c else b) where the condition c may itself raise
PyCond(c, a, b) == IF c = "Raise" THEN "Raise" ELSE IF c = "True" THEN a ELSE b

\* --------------------------------------------- classifier of src/scan.py

\* mutant of breakout: today's rolling high instead of the prior bar's
breakout_today(L) ==
    PyIf(L.i - 1 >= 0, PyGt(PyIdx(L.closes, L.i), PyIdx(L.high20, L.i)), "False")

breakout(L) ==
    PyIf(L.i - 1 >= 0, PyGt(PyIdx(L.closes, L.i), PyIdx(L.high20, L.i - 1)), "False")

pullback_bounce(L) ==
    PyAnd(PyCond(IsNotNone(PyIdx(L.sma50, L.i)),
                 PyGt(PyIdx(L.closes, L.i), PyIdx(L.sma50, L.i)), "False"),
    PyAnd(PyCond(PyAnd(PyBool(L.i - 1 >= 0), IsNotNone(PyIdx(L.sma20, L.i - 1))),
                 PyLt(PyIdx(L.lows, L.i - 1), PyIdx(L.sma20, L.i - 1)), "False"),
          PyIf(L.i - 1 >= 0, PyGt(PyIdx(L.closes, L.i), PyIdx(L.closes, L.i - 1)), "False")))

volume_spike(L) ==
    PyCond(IsNotNone(PyIdx(L.avg_vol20, L.i)),
           PyGt(PyIdx(L.volumes, L.i), Times15(PyIdx(L.avg_vol20, L.i))), "False")

big_green(L) ==
    PyIf(L.i - 1 >= 0,
         PyAnd(PyGt(PyIdx(L.closes, L.i), OpenAt(L, L.i)),
               PyGt(PyIdx(L.closes, L.i), PyIdx(L.highs, L.i - 1))),
         "False")

\* mutant of rsi_strength: the None guard is missing
rsi_strength_noguard(L) == PyGt(PyIdx(L.rsi, L.i), Int2Val(55))

rsi_strength(L) ==
    PyAnd(IsNotNone(PyIdx(L.rsi, L.i)), PyGt(PyIdx(L.rsi, L.i), Int2Val(55)))

above_sma20(L) ==
    PyAnd(IsNotNone(PyIdx(L.sma20, L.i)), PyGt(PyIdx(L.closes, L.i), PyIdx(L.sma20, L.i)))

\* the six conditions assigned before bullish_momentum, in order
Conditions(L) ==
    [breakout     |-> breakout(L),
     pullback     |-> pullback_bounce(L),
     volume_spike |-> volume_spike(L),
     big_green    |-> big_green(L),
     rsi_strength |-> rsi_strength(L),
     above_sma20  |-> above_sma20(L)]

bullish_momentum(c) ==
    PyAnd(c.volume_spike, PyAnd(c.big_green, PyAnd(c.rsi_strength, c.above_sma20)))

\* valid = breakout or pullback_bounce or bullish_momentum
Valid(c, m) == PyOr(c.breakout, PyOr(c.pullback, m)) = "True"

\* mutant of SetupLabel: pullback-bounce tested before breakout
SetupLabel_pullbackFirst(c, m) ==
    IF c.pullback = "True" THEN "Pullback & bounce setup"
    ELSE IF c.breakout = "True" THEN "Breakout setup"
    ELSE IF m = "True" THEN "Bullish momentum setup"
    ELSE "No clear setup"

\* if breakout: ... elif pullback_bounce: ... elif bullish_momentum: ... else: ...
SetupLabel(c, m) ==
    IF c.breakout = "True" THEN "Breakout setup"
    ELSE IF c.pullback = "True" THEN "Pullback & bounce setup"
    ELSE IF m = "True" THEN "Bullish momentum setup"
    ELSE "No clear setup"

NoConditions ==
    [breakout |-> "False", pullback |-> "False", volume_spike |-> "False",
     big_green |-> "False", rsi_strength |-> "False", above_sma20 |-> "False"]

\* a call that raised: nothing is returned
TechRaised ==
    [raised |-> TRUE, sma20 |-> << >>, sma50 |-> << >>, valid |-> FALSE, setup |-> "raised",
     cond |-> NoConditions, bullish |-> "False",
     rsi |-> << >>, high20 |-> << >>, avg_vol20 |-> << >>]

RequiredColumns == {"Close", "High", "Low", "Volume"}

\* The outcome of a call: the returned dictionary (sma20, sma50, valid, setup)
\* and, beside it, the call's locals that the properties below speak about.
TechResult(L, c, m) ==
    IF "Raise" \in {c.breakout, c.pullback, c.volume_spike, c.big_green,
                    c.rsi_strength, c.above_sma20}
    THEN TechRaised
    ELSE [raised |-> FALSE,
          sma20  |-> L.sma20,
          sma50  |-> L.sma50,
          valid  |-> Valid(c, m),
          setup  |-> SetupLabel(c, m),
          cond   |-> c,
          bullish |-> m,
          rsi |-> L.rsi, high20 |-> L.high20, avg_vol20 |-> L.avg_vol20]

calculate_technicals(df) ==
    IF ~(RequiredColumns \subseteq DOMAIN df.cols) THEN TechRaised
    ELSE LET L == Indicators(df)
             c == Conditions(L)
         IN TechResult(L, c, bullish_momentum(c))

\* --------------------------- classifier of src/api/scan_disabled.py

breakout_d(L) ==
    PyIf(L.i - 1 >= 0, PyGt(PyIdx(L.closes, L.i), PyIdx(L.high20, L.i - 1)), "False")

\* mutant of pullback: the close-above-prior-close conjunct is missing
pullback_nobounce(L) ==
    PyAnd(IsNotNone(PyIdx(L.sma50, L.i)),
    PyAnd(PyGt(PyIdx(L.closes, L.i), PyIdx(L.sma50, L.i)),
    PyAnd(PyBool(L.i - 1 >= 0),
    PyAnd(IsNotNone(PyIdx(L.sma20, L.i - 1)),
          PyLt(PyIdx(L.lows, L.i - 1), PyIdx(L.sma20, L.i - 1))))))

pullback(L) ==
    PyAnd(IsNotNone(PyIdx(L.sma50, L.i)),
    PyAnd(PyGt(PyIdx(L.closes, L.i), PyIdx(L.sma50, L.i)),
    PyAnd(PyBool(L.i - 1 >= 0),
    PyAnd(IsNotNone(PyIdx(L.sma20, L.i - 1)),
    PyAnd(PyLt(PyIdx(L.lows, L.i - 1), PyIdx(L.sma20, L.i - 1)),
          PyGt(PyIdx(L.closes, L.i), PyIdx(L.closes, L.i - 1)))))))

volume_spike_d(L) ==
    PyAnd(IsNotNone(PyIdx(L.avg_vol20, L.i)),
          PyGt(PyIdx(L.volumes, L.i), Times15(PyIdx(L.avg_vol20, L.i))))

big_green_d(L) ==
    PyAnd(PyBool(L.i - 1 >= 0),
    PyAnd(PyGt(PyIdx(L.closes, L.i), OpenAt(L, L.i)),
          PyGt(PyIdx(L.closes, L.i), PyIdx(L.highs, L.i - 1))))

rsi_strength_d(L) ==
    PyAnd(IsNotNone(PyIdx(L.rsi, L.i)), PyGt(PyIdx(L.rsi, L.i), Int2Val(55)))

above_sma20_d(L) ==
    PyAnd(IsNotNone(PyIdx(L.sma20, L.i)), PyGt(PyIdx(L.closes, L.i), PyIdx(L.sma20, L.i)))

Conditions_d(L) ==
    [breakout     |-> breakout_d(L),
     pullback     |-> pullback(L),
     volume_spike |-> volume_spike_d(L),
     big_green    |-> big_green_d(L),
     rsi_strength |-> rsi_strength_d(L),
     above_sma20  |-> above_sma20_d(L)]

bullish(c) ==
    PyAnd(c.volume_spike, PyAnd(c.big_green, PyAnd(c.rsi_strength, c.above_sma20)))

calculate_technicals_d(df) ==
    IF ~(RequiredColumns \subseteq DOMAIN df.cols) THEN TechRaised
    ELSE LET L == Indicators(df)
             c == Conditions_d(L)
         IN TechResult(L, c, bullish(c))

\* ------------------------------------------------------------------ inputs

\* longest price history fed to calculate_technicals
MaxLen == 61

\* longest ticker list returned by get_tickers
MaxTickers == 4

\* if df.empty or len(df) < 60
MinBars == 60

\* if len(results) >= 3: break
MaxResults == 3

Bar(o, h, l, c, v) == [Open |-> o, High |-> h, Low |-> l, Close |-> c, Volume |-> v]

Shapes == {"flat", "up", "down", "zig", "peak"}

PrevKinds == {"same", "tight"}

LastKinds == {"same", "jump", "jumpvol", "drop"}

\* bar j of an N-bar history following a shape
ShapeBar(shape, j, N) ==
    CASE shape = "flat" -> Bar(100, 101, 99, 100, 1000)
      [] shape = "up"   -> Bar(99 + j, 101 + j, 90 + j, 100 + j, 1000)
      [] shape = "down" -> Bar(301 - j, 302 - j, 299 - j, 300 - j, 1000)
      [] shape = "zig"  -> Bar(100, 103, 99, 100 + 2 * (j % 2), 1000)
      [] shape = "peak" -> Bar(100, IF j = N - 5 THEN 120 ELSE 101, 99, 100, 1000)

PrevBar(kind, b) ==
    CASE kind = "same"  -> b
      [] kind = "tight" -> Bar(b.Close, b.Close, b.Close, b.Close, b.Volume)

LastBar(kind, b) ==
    CASE kind = "same"    -> b
      [] kind = "jump"    -> Bar(b.Open, b.Close + 6, b.Low, b.Close + 5, b.Volume)
      [] kind = "jumpvol" -> Bar(b.Open, b.Close + 6, b.Low, b.Close + 5, 3 * b.Volume)
      [] kind = "drop"    -> Bar(b.Open, b.High, b.Close - 6, b.Close - 5, b.Volume)

Row(N, shape, prev, last, j) ==
    IF j = N THEN LastBar(last, ShapeBar(shape, j, N))
    ELSE IF j = N - 1 THEN PrevBar(prev, ShapeBar(shape, j, N))
    ELSE ShapeBar(shape, j, N)

\* the frame of an N-bar history; names gives the provider's column naming
MkFrame(N, shape, prev, last, names) ==
    [cols  |-> [c \in names |->
                   [j \in 1..N |->
                       LET r == Row(N, shape, prev, last, j)
                       IN IF Capitalize(c) \in Columns THEN r[Capitalize(c)] ELSE r.Close]],
     index |-> [j \in 1..N |-> j]]

\* histories handed to calculate_technicals directly
TechInputs ==
    {MkFrame(N, sh, pv, la, Columns) :
        N \in 1..MaxLen, sh \in Shapes, pv \in PrevKinds, la \in LastKinds}

LowerColumns == {"open", "high", "low", "close", "volume"}

\* what yf.download may return for one symbol
Downloads ==
    { MkFrame(0, "flat", "same", "same", Columns),
      MkFrame(MinBars - 1, "flat", "same", "jumpvol", Columns),
      MkFrame(MinBars, "flat", "same", "same", Columns),
      MkFrame(MinBars, "flat", "same", "jumpvol", LowerColumns),
      MkFrame(MinBars + 1, "peak", "tight", "jumpvol", Columns),
      MkFrame(MinBars, "flat", "same", "jumpvol", {"Open", "High", "Low", "Adj Close", "Volume"}) }

Symbols == <<"T1", "T2", "T3", "T4", "T5", "T6">>

\* what get_tickers may return (the screener is an external service)
TickerLists == {SubSeq(Symbols, 1, n) : n \in 0..MaxTickers}

NoFrame == [cols |-> << >>, index |-> << >>]

NoTech ==
    [raised |-> FALSE, sma20 |-> << >>, sma50 |-> << >>, valid |-> FALSE, setup |-> "none",
     cond |-> NoConditions, bullish |-> "False",
     rsi |-> << >>, high20 |-> << >>, avg_vol20 |-> << >>]

NoResponse == [statusCode |-> 0, body |-> << >>]

\* ------------------------------------------------------------------- state

VARIABLES impl, pc, tickers, idx, symbol, results, df, tech, response, failed

vars == <<impl, pc, tickers, idx, symbol, results, df, tech, response, failed>>

\* the copy of calculate_technicals that the running module defines
Technicals(which, frame) ==
    IF which = "scan" THEN calculate_technicals(frame) ELSE calculate_technicals_d(frame)

\* ----------------------------------- calculate_technicals as an operation

TechInit ==
    /\ impl = "none"
    /\ pc = "input"
    /\ df \in TechInputs
    /\ tech = NoTech
    /\ tickers = << >> /\ idx = 0 /\ symbol = "" /\ results = << >>
    /\ response = NoResponse /\ failed = << >>

CalcScan ==
    /\ pc = "input"
    /\ impl' = "scan"
    /\ tech' = calculate_technicals(df)
    /\ pc' = "done"
    /\ UNCHANGED <<tickers, idx, symbol, results, df, response, failed>>

CalcDisabled ==
    /\ pc = "input"
    /\ impl' = "scan_disabled"
    /\ tech' = calculate_technicals_d(df)
    /\ pc' = "done"
    /\ UNCHANGED <<tickers, idx, symbol, results, df, response, failed>>

TechNext == CalcScan \/ CalcDisabled

TechSpec == TechInit /\ [][TechNext]_vars


\* ------------------------------------------------------------- handler

Init ==
    /\ impl \in {"scan", "scan_disabled"}
    /\ tickers \in TickerLists
    /\ pc = "for"
    /\ idx = 0
    /\ symbol = ""
    /\ results = << >>
    /\ df = NoFrame
    /\ tech = NoTech
    /\ response = NoResponse
    /\ failed = << >>

\* for symbol in tickers: take the next symbol, or leave the loop at the end
ForNext ==
    /\ pc = "for"
    /\ idx < Len(tickers)
    /\ symbol' = tickers[idx + 1]
    /\ idx' = idx + 1
    /\ pc' = "body"
    /\ UNCHANGED <<impl, tickers, results, df, tech, response, failed>>

ForEnd ==
    /\ pc = "for"
    /\ idx >= Len(tickers)
    /\ pc' = "return"
    /\ UNCHANGED <<impl, tickers, idx, symbol, results, df, tech, response, failed>>

\* mutant of EnoughResults: strict comparison
EnoughResults_gt == Len(results) > MaxResults

\* loop guard of the scan: stop once enough results are collected
EnoughResults == Len(results) >= MaxResults

\* if len(results) >= 3: break
Break ==
    /\ pc = "body"
    /\ EnoughResults
    /\ pc' = "return"
    /\ UNCHANGED <<impl, tickers, idx, symbol, results, df, tech, response, failed>>

\* df = yf.download(symbol, ...) returns a frame
Download ==
    /\ pc = "body"
    /\ ~EnoughResults
    /\ \E f \in Downloads : df' = f
    /\ pc' = "len"
    /\ UNCHANGED <<impl, tickers, idx, symbol, results, tech, response, failed>>

\* df = yf.download(symbol, ...) raises (network, data format)
DownloadRaises ==
    /\ pc = "body"
    /\ ~EnoughResults
    /\ pc' = "except"
    /\ UNCHANGED <<impl, tickers, idx, symbol, results, df, tech, response, failed>>

\* mutant of TooShort: a history of exactly MinBars bars is rejected too
TooShort_le(frame) == DfEmpty(frame) \/ DfLen(frame) <= MinBars

\* history too short to be classified
TooShort(frame) == DfEmpty(frame) \/ DfLen(frame) < MinBars

\* if df.empty or len(df) < 60: continue
SkipShort ==
    /\ pc = "len"
    /\ TooShort(df)
    /\ pc' = "for"
    /\ UNCHANGED <<impl, tickers, idx, symbol, results, df, tech, response, failed>>

\* df = df.rename(columns=str.capitalize); tech = calculate_technicals(df)
Classify ==
    /\ pc = "len"
    /\ ~TooShort(df)
    /\ LET renamed == Rename(df)
           t == Technicals(impl, renamed)
       IN /\ df' = renamed
          /\ tech' = t
          /\ pc' = IF t.raised THEN "except" ELSE "valid"
    /\ UNCHANGED <<impl, tickers, idx, symbol, results, response, failed>>

\* if not tech["valid"]: continue
SkipInvalid ==
    /\ pc = "valid"
    /\ ~tech.valid
    /\ pc' = "for"
    /\ UNCHANGED <<impl, tickers, idx, symbol, results, df, tech, response, failed>>

\* the dictionary appended for a symbol with a valid setup
ResultEntry(sym, frame, t) ==
    [symbol |-> sym,
     dates  |-> frame.index,
     opens  |-> frame.cols["Open"],
     highs  |-> frame.cols["High"],
     lows   |-> frame.cols["Low"],
     closes |-> frame.cols["Close"],
     sma20  |-> t.sma20,
     sma50  |-> t.sma50,
     setup  |-> t.setup]

\* results.append({...})
AppendResult ==
    /\ pc = "valid"
    /\ tech.valid
    /\ results' = Append(results, ResultEntry(symbol, df, tech))
    /\ pc' = "for"
    /\ UNCHANGED <<impl, tickers, idx, symbol, df, tech, response, failed>>

\* mutant of Except: an error ends the scan
Except_abort ==
    /\ pc = "except"
    /\ failed' = Append(failed, symbol)
    /\ pc' = "return"
    /\ UNCHANGED <<impl, tickers, idx, symbol, results, df, tech, response>>

\* except Exception: continue
Except ==
    /\ pc = "except"
    /\ failed' = Append(failed, symbol)
    /\ pc' = "for"
    /\ UNCHANGED <<impl, tickers, idx, symbol, results, df, tech, response>>

\* return {"statusCode": 200, ..., "body": json.dumps({"results": results})}
Return ==
    /\ pc = "return"
    /\ response' = [statusCode |-> 200, body |-> results]
    /\ pc' = "done"
    /\ UNCHANGED <<impl, tickers, idx, symbol, results, df, tech, failed>>

Next ==
    \/ ForNext
    \/ ForEnd
    \/ Break
    \/ Download
    \/ DownloadRaises
    \/ SkipShort
    \/ Classify
    \/ SkipInvalid
    \/ AppendResult
    \/ Except
    \/ Return

Spec == Init /\ [][Next]_vars



\* =================================================================== claims

\* an entry that carries no numeric value
Absent(v) == v.k \in {"None", "nan"}

Truth(x) == x = "True"

\* calculate_technicals has returned (or raised) for the series in df
Calculated == pc = "done" /\ impl \in {"scan", "scan_disabled"}

\* C1: the setup label follows the fixed priority breakout > pullback-bounce >
\* bullish momentum > none, and valid holds exactly when the label is not
\* 'No clear setup'; breakout together with pullback-bounce is labelled breakout.
C1_LabelPriority ==
    Calculated /\ ~tech.raised =>
        LET b == Truth(tech.cond.breakout)
            p == Truth(tech.cond.pullback)
            m == Truth(tech.bullish)
        IN /\ b => tech.setup = "Breakout setup"
           /\ (~b /\ p) => tech.setup = "Pullback & bounce setup"
           /\ (~b /\ ~p /\ m) => tech.setup = "Bullish momentum setup"
           /\ (~b /\ ~p /\ ~m) => tech.setup = "No clear setup"
           /\ (b /\ p) => tech.setup # "Pullback & bounce setup"
           /\ tech.valid <=> (tech.setup # "No clear setup")

\* breakout and pullback-bounce both hold on the last bar, label is breakout
C1_Witness ==
    /\ Calculated
    /\ Truth(tech.cond.breakout)
    /\ Truth(tech.cond.pullback)
    /\ tech.setup = "Breakout setup"

\* the 60-bar breakout scenario: 59 flat bars (high 101), last close 105
BreakoutScenario == MkFrame(60, "flat", "same", "jump", Columns)

\* C2: with last index i >= 1, breakout holds exactly when close[i] exceeds
\* every high of the 20 bars i-20..i-1 (today's bar excluded) and is false
\* when fewer than 20 prior bars exist; in the 60-bar scenario high20[58] = 101
\* and the label is 'Breakout setup'.
C2_BreakoutPriorHigh ==
    Calculated /\ DfLen(df) >= 2 =>
        LET N == DfLen(df)
            close == df.cols["Close"]
            high == df.cols["High"]
        IN /\ ~tech.raised
           /\ Truth(tech.cond.breakout) <=>
                  (N >= 21 /\ \A j \in (N - 20)..(N - 1) : close[N] > high[j])
           /\ df = BreakoutScenario =>
                  /\ PyIdx(tech.high20, 58) = Int2Val(101)
                  /\ tech.setup = "Breakout setup"

C2_Witness ==
    /\ Calculated
    /\ df = BreakoutScenario
    /\ Truth(tech.cond.breakout)

\* the 14 day-over-day close changes ending at bar j (1-based) are all zero
FlatWindow(close, j) == \A q \in (j - 13)..j : close[q] = close[q - 1]

\* C3 as stated: rsi14[i] is absent if and only if i < 15.
C3_Original ==
    Calculated =>
        \A j \in 0..(DfLen(df) - 1) : Absent(PyIdx(tech.rsi, j)) <=> (j < 15)

\* C3 amended: the RSI array has one entry per bar; rsi14[i] is absent if and
\* only if i < 14 (one pad slot plus 13 short windows) or the 14 close changes
\* ending at bar i are all zero (0/0).
C3_RsiAbsence ==
    Calculated =>
        /\ Len(tech.rsi) = DfLen(df)
        /\ IsNone(tech.rsi[1])
        /\ \A j \in 0..(DfLen(df) - 1) :
               Absent(PyIdx(tech.rsi, j)) <=>
                   (j < 14 \/ FlatWindow(df.cols["Close"], j + 1))

\* the first RSI value that exists: index 14 of a 15-bar moving series
C3_Witness ==
    /\ Calculated
    /\ DfLen(df) = 15
    /\ ~Absent(PyIdx(tech.rsi, 14))
    /\ Absent(PyIdx(tech.rsi, 13))

\* C4: the returned sma20 and sma50 arrays have one entry per bar; sma20[i]
\* is absent iff i < 19 and sma50[i] is absent iff i < 49.
C4_SmaAbsence ==
    Calculated =>
        /\ Len(tech.sma20) = DfLen(df)
        /\ Len(tech.sma50) = DfLen(df)
        /\ \A j \in 0..(DfLen(df) - 1) :
               /\ Absent(PyIdx(tech.sma20, j)) <=> (j < 19)
               /\ Absent(PyIdx(tech.sma50, j)) <=> (j < 49)

C4_Witness ==
    /\ Calculated
    /\ DfLen(df) > 50
    /\ ~Absent(PyIdx(tech.sma50, 49))
    /\ Absent(PyIdx(tech.sma50, 48))
    /\ ~Absent(PyIdx(tech.sma20, 19))
    /\ Absent(PyIdx(tech.sma20, 18))

\* the last 14 close changes are all non-negative and one is positive
GainsOnly(close) ==
    LET N == Len(close)
    IN /\ N >= 15
       /\ \A q \in (N - 13)..N : close[q] >= close[q - 1]
       /\ \E q \in (N - 13)..N : close[q] > close[q - 1]

\* C5: when the 14-period average loss at the last bar is 0 and the average
\* gain is positive, rsi14 there is the number 100 and rsiStrength is true.
C5_RsiSaturates ==
    Calculated /\ GainsOnly(df.cols["Close"]) =>
        LET r == PyIdx(tech.rsi, DfLen(df) - 1)
        IN /\ ~tech.raised
           /\ r.k = "num"
           /\ r.n = 100 * r.d
           /\ Truth(tech.cond.rsi_strength)

C5_Witness ==
    /\ Calculated
    /\ GainsOnly(df.cols["Close"])
    /\ Truth(tech.cond.rsi_strength)

\* C6: on a non-empty series the classifier raises nothing, every condition is
\* false when an indicator value or the prior bar it reads is absent, and a
\* one-bar series gives valid = false with 'No clear setup'.
C6_TotalClassifier ==
    Calculated =>
        LET i == DfLen(df) - 1
            noPrev == i < 1
            c == tech.cond
        IN /\ ~tech.raised
           /\ (noPrev \/ Absent(PyIdx(tech.high20, i - 1))) => c.breakout = "False"
           /\ (noPrev \/ Absent(PyIdx(tech.sma50, i)) \/ Absent(PyIdx(tech.sma20, i - 1)))
                  => c.pullback = "False"
           /\ Absent(PyIdx(tech.avg_vol20, i)) => c.volume_spike = "False"
           /\ noPrev => c.big_green = "False"
           /\ Absent(PyIdx(tech.rsi, i)) => c.rsi_strength = "False"
           /\ Absent(PyIdx(tech.sma20, i)) => c.above_sma20 = "False"
           /\ DfLen(df) = 1 => (~tech.valid /\ tech.setup = "No clear setup")

C6_Witness ==
    /\ Calculated
    /\ DfLen(df) = 1
    /\ ~tech.raised
    /\ IsNone(PyIdx(tech.rsi, 0))
    /\ tech.setup = "No clear setup"

\* C10: both copies of calculate_technicals give the same truth values for
\* breakout, pullback-bounce and bullish momentum and return the same valid
\* flag and setup label.
C10_CopiesAgree ==
    Calculated =>
        LET other == IF impl = "scan" THEN "scan_disabled" ELSE "scan"
            o == Technicals(other, df)
        IN /\ tech.raised = o.raised
           /\ Truth(tech.cond.breakout) = Truth(o.cond.breakout)
           /\ Truth(tech.cond.pullback) = Truth(o.cond.pullback)
           /\ Truth(tech.bullish) = Truth(o.bullish)
           /\ tech.valid = o.valid
           /\ tech.setup = o.setup

\* a one-bar series classified by the scan_disabled copy
C10_Witness ==
    /\ Calculated
    /\ impl = "scan_disabled"
    /\ DfLen(df) = 1
    /\ ~tech.raised
    /\ tech.setup = "No clear setup"


ValidLabels == {"Breakout setup", "Pullback & bounce setup", "Bullish momentum setup"}

\* C7: results never holds more than three entries, and once it holds three
\* no further ticker is downloaded or classified.
C7_AtMostThree ==
    /\ [](Len(results) <= 3)
    /\ [][Len(results) >= 3 =>
            /\ pc' \notin {"len", "valid", "except"}
            /\ df' = df /\ tech' = tech /\ results' = results /\ failed' = failed]_vars

\* the loop stopped at a fourth ticker that was never downloaded
C7_Witness ==
    /\ pc = "return"
    /\ Len(results) = 3
    /\ symbol = "T4"
    /\ \A k \in 1..3 : results[k].symbol # "T4"
    /\ df.cols["Close"] = results[3].closes

\* C8: an error while downloading or classifying a ticker adds nothing to
\* results, leaves them unchanged, the loop goes on with the next ticker, and
\* the response carries statusCode 200 with the collected results.
C8_ErrorIsLocal ==
    /\ [][/\ pc' = "except" => results' = results /\ idx' = idx
          /\ pc = "except" => /\ pc' = "for"
                              /\ results' = results
                              /\ idx' = idx
                              /\ failed' = Append(failed, symbol)]_vars
    /\ [](pc = "done" => response.statusCode = 200 /\ response.body = results)
    /\ [](\A k \in 1..Len(failed) : \A q \in 1..Len(results) : results[q].symbol # failed[k])

\* the first ticker failed, a later one produced a result, the status is 200
C8_Witness ==
    /\ pc = "done"
    /\ Len(failed) >= 1
    /\ failed[1] = "T1"
    /\ Len(results) >= 1
    /\ response.statusCode = 200
    /\ response.body = results

\* C9: every entry of results belongs to a history of at least 60 bars with
\* valid = true; a shorter (or empty) history is skipped before
\* calculate_technicals is called, a history of exactly 60 bars is classified.
C9_OnlyLongValidHistories ==
    /\ [](\A k \in 1..Len(results) :
             Len(results[k].closes) >= 60 /\ results[k].setup \in ValidLabels)
    /\ [][pc = "len" =>
            IF DfLen(df) < 60
            THEN pc' = "for" /\ results' = results /\ tech' = tech /\ df' = df
            ELSE pc' \in {"valid", "except"}]_vars
    /\ [][results' # results =>
            /\ tech.valid
            /\ DfLen(df) >= 60
            /\ Len(results') = Len(results) + 1
            /\ results'[Len(results')].symbol = symbol
            /\ results'[Len(results')].closes = df.cols["Close"]]_vars

\* a history of exactly 60 bars made it into results
C9_Witness ==
    /\ Len(results) >= 1
    /\ Len(results[1].closes) = 60
    /\ results[1].setup \in ValidLabels

=============================================================================
